---- MODULE Spec2Model ----
(***************************************************************************)
(* A model of the filebuffer crate: a read-only memory mapping of a whole  *)
(* file (FileBuffer), its page arithmetic, the batched residency query,    *)
(* the prefetch advice, leak and drop, on the Posix and Windows backends.  *)
(***************************************************************************)
EXTENDS Integers, Sequences, FiniteSets, TLC

VARIABLES
    backend,          \* "posix" | "windows": the cfg(unix) / cfg(windows) build
    overflow_checks,  \* TRUE: arithmetic overflow panics (debug profile); FALSE: it wraps
    file_len,         \* length in bytes of the file on disk
    os_page_size,     \* the page size the OS reports
    pc,               \* where the program is in the life of the view
    fb,               \* the FileBuffer value: page_size, buffer, length, platform_data
    os,               \* OS resources of the process: the mapped view, handles, release counts
    residency,        \* the page indexes of the mapping that are in physical memory
    advised,          \* the page indexes the OS was advised to load and has not loaded yet
    leaked,           \* the 'static slice returned by leak
    last,             \* the last operation and its outcome
    arg,              \* the inputs of the calls: size and power_of_two, or offset and length
    threads           \* the threads that share the view: state, window, last outcome

vars == <<backend, overflow_checks, file_len, os_page_size, pc, fb, os, residency,
          advised, leaked, last, arg, threads>>

(***************************************************************************)
(* Machine words: usize of WordBits bits.                                  *)
(***************************************************************************)
WordBits == 8

MaxUsize == 2^WordBits - 1

Usize == 0..MaxUsize

Wrap(x) == x % (MaxUsize + 1)

RECURSIVE BitAnd(_, _)
BitAnd(a, b) ==
    IF a = 0 \/ b = 0 THEN 0
    ELSE (a % 2) * (b % 2) + 2 * BitAnd(a \div 2, b \div 2)

BitNot(a) == MaxUsize - a

Min(a, b) == IF a <= b THEN a ELSE b

\* Op applied to the value of e, which is computed once.
With(e, Op(_)) == CHOOSE v \in {Op(x) : x \in {e}} : TRUE

(***************************************************************************)
(* lib.rs: round_up_to, round_down_to.  The value is the wrapped result;   *)
(* the *_overflows predicates say when the arithmetic leaves the word     *)
(* (a panic under overflow_checks).                                        *)
(***************************************************************************)
round_up_to_off_by_one(size, power_of_two) ==
    BitAnd(Wrap(size + power_of_two), BitNot(Wrap(power_of_two - 1)))

round_up_to(size, power_of_two) ==
    BitAnd(Wrap(size + Wrap(power_of_two - 1)), BitNot(Wrap(power_of_two - 1)))

round_up_to_overflows(size, power_of_two) ==
    power_of_two = 0 \/ size + (power_of_two - 1) > MaxUsize

round_down_to(size, power_of_two) ==
    BitAnd(size, BitNot(Wrap(power_of_two - 1)))

round_down_to_overflows(size, power_of_two) == power_of_two = 0

PowersOfTwo == {2^k : k \in 0..(WordBits - 1)}

IsPowerOfTwo(p) == p \in PowersOfTwo

\* The power_of_two arguments tried: every power of two, and 0, 3 and 6, which are none.
RoundPowers == PowersOfTwo \cup {0, 3, 6}

(***************************************************************************)
(* Idle values of the state that a specification does not exercise.        *)
(***************************************************************************)
NoPlatformData == [file |-> FALSE, mapping_handle |-> 0]

NoView == [page_size |-> 0, buffer |-> 0, length |-> 0, platform_data |-> NoPlatformData]

NoOs == [view_base |-> 0, view_len |-> 0, file_open |-> FALSE, mapping_open |-> FALSE,
         munmaps |-> 0, handle_closes |-> 0, file_closes |-> 0, prims |-> {}, busy |-> 0]

NoSlice == [valid |-> FALSE, base |-> 0, len |-> 0]

NoOp == [op |-> "none"]

NoThreads == <<>>

(***************************************************************************)
(* The page arithmetic on its own: every size, every power_of_two.         *)
(***************************************************************************)
InitRound ==
    /\ threads = NoThreads
    /\ backend = "posix"
    /\ overflow_checks \in BOOLEAN
    /\ file_len = 0
    /\ os_page_size = 0
    /\ pc = "round"
    /\ fb = NoView
    /\ os = NoOs
    /\ residency = {}
    /\ advised = {}
    /\ leaked = NoSlice
    /\ last = NoOp
    /\ arg \in [size : Usize, power_of_two : RoundPowers]

RoundResult(op, panics, v) ==
    IF overflow_checks /\ panics
    THEN [op |-> op, kind |-> "panic", value |-> 0]
    ELSE [op |-> op, kind |-> "value", value |-> v]

CallRoundUp ==
    /\ pc = "round"
    /\ last' = RoundResult("round_up_to",
                           round_up_to_overflows(arg.size, arg.power_of_two),
                           round_up_to(arg.size, arg.power_of_two))
    /\ UNCHANGED <<threads, backend, overflow_checks, file_len, os_page_size, pc, fb, os,
                   residency, advised, leaked, arg>>

CallRoundDown ==
    /\ pc = "round"
    /\ last' = RoundResult("round_down_to",
                           round_down_to_overflows(arg.size, arg.power_of_two),
                           round_down_to(arg.size, arg.power_of_two))
    /\ UNCHANGED <<threads, backend, overflow_checks, file_len, os_page_size, pc, fb, os,
                   residency, advised, leaked, arg>>

NextRound == CallRoundUp \/ CallRoundDown

SpecRound == InitRound /\ [][NextRound]_vars

(***************************************************************************)
(* The file and the OS.                                                    *)
(***************************************************************************)
\* The byte at position i of the file on disk when it was mapped.
FileByte(i) == (7 * i + 3) % 251

\* lib.rs resident_len: let mut residency = [false; 32]
BatchPages == 32

\* The page sizes the OS reports, the file lengths and the addresses mmap or
\* MapViewOfFile places a view at (multiples of every page size).
PageSizes == {2, 4}

SmallFileLens == {0, 3}

\* A file longer than the address space.
HugeFileLens == {MaxUsize + 1}

LargeFileLens == {8, 2 * BatchPages + 6, 4 * BatchPages + 2}

MapAddrs == {2 * BatchPages}

\* Pages of the view that may be out of physical memory in the residency
\* states tried: the first pages and the pages around the end of a batch.
HolePages == {0, 1, BatchPages - 1, BatchPages, BatchPages + 1}

MaxHoles == 2

PagesOf(len, page_size) == 0..((len + page_size - 1) \div page_size - 1)

\* The value open builds for a file of len bytes mapped at base (lib.rs open,
\* unix.rs / windows.rs map_file, on their success paths).
OpenedView(be, len, page_size, base) ==
    [page_size |-> page_size,
     buffer |-> IF len = 0 THEN 0 ELSE base,
     length |-> len,
     platform_data |-> IF be = "windows"
                       THEN [file |-> TRUE, mapping_handle |-> IF len = 0 THEN 0 ELSE 1]
                       ELSE NoPlatformData]

\* The OS resources the process holds after that open.
OpenedOs(be, len, base) ==
    [view_base |-> IF len = 0 THEN 0 ELSE base,
     view_len |-> len,
     file_open |-> be = "windows",
     mapping_open |-> be = "windows" /\ len > 0,
     munmaps |-> 0,
     handle_closes |-> 0,
     file_closes |-> IF be = "windows" THEN 0 ELSE 1,
     prims |-> IF len = 0 THEN {}
               ELSE IF be = "windows" THEN {"CreateFileMappingW", "MapViewOfFile"}
               ELSE {"mmap"},
     busy |-> 0]

\* [addr, addr + len) is page-aligned and lies on the pages of the mapped view.
OnMappedPages(addr, len) ==
    /\ os.view_len > 0
    /\ os_page_size > 0
    /\ addr % os_page_size = 0
    /\ addr >= os.view_base
    /\ addr + len <= os.view_base + os_page_size * Cardinality(PagesOf(os.view_len, os_page_size))

PageAt(addr) == (addr - os.view_base) \div os_page_size

\* libc::EAGAIN
EAGAIN == 11

\* mincore(2): 0 and one entry per page of the range; -1 with errno EAGAIN
\* while the kernel is busy (busy > 0 times more); -1 with errno ENOMEM for a
\* range that is not mapped.
mincore(addr, len, busy) ==
    IF busy > 0 THEN [ret |-> -1, errno |-> "EAGAIN", vec |-> <<>>]
    ELSE IF OnMappedPages(addr, len)
    THEN [ret |-> 0, errno |-> "none",
          vec |-> [i \in 0..((len + os_page_size - 1) \div os_page_size - 1)
                     |-> (PageAt(addr) + i) \in residency]]
    ELSE [ret |-> -1, errno |-> "ENOMEM", vec |-> <<>>]

\* madvise(2) with MADV_WILLNEED.
madvise(addr, len) == IF OnMappedPages(addr, len) THEN 0 ELSE -1

(***************************************************************************)
(* unix.rs / windows.rs: get_resident and prefetch.                        *)
(***************************************************************************)
\* unix.rs get_resident: mincore writes the first length / page_size entries
\* of the buffer; a result that is neither 0 nor EAGAIN fails the assertion;
\* a result of EAGAIN yields and calls get_resident again.  met counts the
\* calls the kernel answered while busy.
RECURSIVE unix_get_resident(_, _, _, _, _)
unix_get_resident(buffer, length, residency_buf, busy, met) ==
    With(mincore(buffer, length, busy), LAMBDA r :
        IF ~(r.ret = EAGAIN \/ r.ret = 0)
        THEN [ok |-> FALSE, prim |-> "mincore", residency |-> residency_buf,
              ret |-> r.ret, busy |-> met + (IF r.errno = "EAGAIN" THEN 1 ELSE 0)]
        ELSE IF r.ret = EAGAIN
        THEN unix_get_resident(buffer, length, residency_buf,
                               IF busy > 0 THEN busy - 1 ELSE 0, met + 1)
        ELSE [ok |-> TRUE, prim |-> "mincore",
              residency |-> [i \in DOMAIN residency_buf |->
                               IF i \in DOMAIN r.vec THEN r.vec[i] ELSE residency_buf[i]],
              ret |-> r.ret, busy |-> met])

get_resident_queries_os(buffer, length, residency_buf) ==
    unix_get_resident(buffer, length, residency_buf, os.busy, 0)

\* windows.rs get_resident: every entry is set to true and no OS call is made.
get_resident(buffer, length, residency_buf) ==
    IF backend = "windows"
    THEN [ok |-> TRUE, prim |-> "none", residency |-> [i \in DOMAIN residency_buf |-> TRUE],
          ret |-> 0, busy |-> 0]
    ELSE unix_get_resident(buffer, length, residency_buf, os.busy, 0)

\* unix.rs prefetch: madvise, whose result is asserted to be 0.  windows.rs
\* prefetch: PrefetchVirtualMemory, whose result is ignored.
platform_prefetch(buffer, length) ==
    IF backend = "windows"
    THEN [ok |-> TRUE, prim |-> "PrefetchVirtualMemory"]
    ELSE [ok |-> madvise(buffer, length) = 0, prim |-> "madvise"]

(***************************************************************************)
(* lib.rs: FileBuffer::resident_len.                                       *)
(***************************************************************************)
\* An arithmetic result that leaves the word panics under overflow_checks.
Overflows(x) == overflow_checks /\ (x < 0 \/ x > MaxUsize)

Panic(calls) == [kind |-> "panic", value |-> 0, calls |-> calls]

Value(v, calls) == [kind |-> "value", value |-> v, calls |-> calls]

FirstNonResident_none(residency_buf, pages_to_check) == -1

\* residency[..pages_to_check].iter().position(|resident| !resident)
FirstNonResident(residency_buf, pages_to_check) ==
    LET non == {i \in 0..(pages_to_check - 1) : ~residency_buf[i]}
    IN  IF non = {} THEN -1 ELSE CHOOSE i \in non : \A j \in non : i <= j

\* The while loop of resident_len; the result is the number of resident pages.
RECURSIVE resident_pages(_, _, _, _, _, _)
resident_pages(aligned_offset, num_pages, pages_checked, pages_resident, residency_buf, calls) ==
    IF ~(pages_checked < num_pages) THEN Value(pages_resident, calls)
    ELSE
    LET pages_to_check == Min(BatchPages, num_pages - pages_checked)
        check_offset == aligned_offset + pages_checked * fb.page_size
        check_buffer == Wrap(fb.buffer + Wrap(check_offset))
        check_length == pages_to_check * fb.page_size
    IN  IF Overflows(pages_checked * fb.page_size) \/ Overflows(check_offset)
           \/ Overflows(check_length)
        THEN Panic(calls)
        ELSE With(get_resident(check_buffer, Wrap(check_length), residency_buf), LAMBDA got :
            LET calls2 == Append(calls, [fn |-> "get_resident", prim |-> got.prim,
                                         addr |-> check_buffer, len |-> Wrap(check_length),
                                         ret |-> got.ret, busy |-> got.busy])
                non_resident == FirstNonResident(got.residency, pages_to_check)
            IN  IF ~got.ok THEN Panic(calls2)
                ELSE IF non_resident >= 0 THEN Value(pages_resident + non_resident, calls2)
                ELSE resident_pages(aligned_offset, num_pages, pages_checked + pages_to_check,
                                    pages_resident + pages_to_check, got.residency, calls2))

resident_len(offset, length) ==
    LET aligned_offset == round_down_to(offset, fb.page_size)
        slack == Wrap(offset - aligned_offset)
        aligned_length == round_up_to(Wrap(length + slack), fb.page_size)
        num_pages == aligned_length \div fb.page_size
    IN  \* assert!(offset + length <= self.length)
        IF Overflows(offset + length) \/ ~(Wrap(offset + length) <= fb.length)
        THEN Panic(<<>>)
        \* if self.buffer == ptr::null() { return 0; }
        ELSE IF fb.buffer = 0 THEN Value(0, <<>>)
        ELSE IF round_down_to_overflows(offset, fb.page_size) /\ overflow_checks
        THEN Panic(<<>>)
        ELSE IF Overflows(length + slack)
                \/ (overflow_checks
                    /\ round_up_to_overflows(Wrap(length + slack), fb.page_size))
        THEN Panic(<<>>)
        ELSE With(resident_pages(aligned_offset, num_pages, 0, 0,
                                 [i \in 0..(BatchPages - 1) |-> FALSE], <<>>), LAMBDA loop :
            LET product == loop.value * fb.page_size
                sum == Wrap(product) + aligned_offset
                resident_length == Wrap(sum) - offset
            IN  IF loop.kind = "panic" THEN loop
                ELSE IF Overflows(product) \/ Overflows(sum) \/ Overflows(resident_length)
                THEN Panic(loop.calls)
                ELSE Value(Min(length, Wrap(resident_length)), loop.calls))

(***************************************************************************)
(* lib.rs: FileBuffer::prefetch.                                           *)
(***************************************************************************)
prefetch_unaligned(offset, length) ==
    LET got == platform_prefetch(Wrap(fb.buffer + offset), length)
        calls == <<[fn |-> "prefetch", prim |-> got.prim,
                    addr |-> Wrap(fb.buffer + offset), len |-> length,
                    ret |-> IF got.ok THEN 0 ELSE -1, busy |-> 0]>>
    IN  IF Overflows(offset + length) \/ ~(Wrap(offset + length) <= fb.length)
        THEN Panic(<<>>)
        ELSE IF fb.buffer = 0 THEN Value(0, <<>>)
        ELSE IF ~got.ok THEN Panic(calls)
        ELSE Value(0, calls)

prefetch(offset, length) ==
    LET aligned_offset == round_down_to(offset, fb.page_size)
        slack == Wrap(offset - aligned_offset)
        aligned_length == round_up_to(Wrap(length + slack), fb.page_size)
        buffer == Wrap(fb.buffer + aligned_offset)
        got == platform_prefetch(buffer, aligned_length)
        calls == <<[fn |-> "prefetch", prim |-> got.prim,
                    addr |-> buffer, len |-> aligned_length,
                    ret |-> IF got.ok THEN 0 ELSE -1, busy |-> 0]>>
    IN  \* assert!(offset + length <= self.length)
        IF Overflows(offset + length) \/ ~(Wrap(offset + length) <= fb.length)
        THEN Panic(<<>>)
        \* if self.buffer == ptr::null() { return; }
        ELSE IF fb.buffer = 0 THEN Value(0, <<>>)
        ELSE IF round_down_to_overflows(offset, fb.page_size) /\ overflow_checks
        THEN Panic(<<>>)
        ELSE IF Overflows(length + slack)
                \/ (overflow_checks
                    /\ round_up_to_overflows(Wrap(length + slack), fb.page_size))
        THEN Panic(<<>>)
        ELSE IF ~got.ok THEN Panic(calls)
        ELSE Value(0, calls)

\* The pages a sequence of platform calls asked the OS to load.
AdvisedBy(calls) ==
    UNION {IF c.fn = "prefetch" /\ OnMappedPages(c.addr, c.len)
           THEN {PageAt(c.addr) + i : i \in 0..(c.len \div os_page_size - 1)}
           ELSE {} : c \in {calls[k] : k \in DOMAIN calls}}

PrimsOf(calls) == {calls[k].prim : k \in DOMAIN calls} \ {"none"}

(***************************************************************************)
(* Calls of resident_len and prefetch on a view that exists.               *)
(***************************************************************************)
\* The offsets and lengths tried: everything up to just past a short file;
\* for a long file the values around 0, around the end of the first batch of
\* pages and around the end of the file; and the largest words.
ArgValues(len) ==
    (IF len <= 8
     THEN 0..(len + 1)
     ELSE (0..5) \cup {2 * BatchPages - 1, 2 * BatchPages, 2 * BatchPages + 1,
                       len - 1, len, len + 1})
    \cup {MaxUsize - 1, MaxUsize}

Windows(len) == [offset : ArgValues(len), length : ArgValues(len)]

Outcome(op, offset, length, r) ==
    [op |-> op, offset |-> offset, length |-> length,
     kind |-> r.kind, value |-> r.value, calls |-> r.calls]

\* A panic unwinds: the view is dropped next.
AfterCall(r) == IF r.kind = "panic" THEN "panicked" ELSE pc

CallResidentLen ==
    /\ pc = "live"
    /\ \E r \in {resident_len(arg.offset, arg.length)} :
              /\ last' = Outcome("resident_len", arg.offset, arg.length, r)
              /\ os' = [os EXCEPT !.prims = @ \cup PrimsOf(r.calls)]
              /\ pc' = AfterCall(r)
    /\ UNCHANGED <<threads, backend, overflow_checks, file_len, os_page_size, fb, residency,
                   advised, leaked, arg>>

CallPrefetch ==
    /\ pc = "live"
    /\ \E r \in {prefetch(arg.offset, arg.length)} :
              /\ last' = Outcome("prefetch", arg.offset, arg.length, r)
              /\ os' = [os EXCEPT !.prims = @ \cup PrimsOf(r.calls)]
              /\ advised' = advised \cup (AdvisedBy(r.calls) \ residency)
              /\ pc' = AfterCall(r)
    /\ UNCHANGED <<threads, backend, overflow_checks, file_len, os_page_size, fb, residency,
                   leaked, arg>>

\* The residency states tried: every page resident but at most MaxHoles of HolePages.
ResidencyStates(len, page_size) ==
    {PagesOf(len, page_size) \ holes :
        holes \in {h \in SUBSET (HolePages \cap PagesOf(len, page_size)) :
                      Cardinality(h) <= MaxHoles}}

\* A view as open leaves it, for every build, file, page size and residency.
InitResident ==
    /\ threads = NoThreads
    /\ backend \in {"posix", "windows"}
    /\ overflow_checks \in BOOLEAN
    /\ file_len \in SmallFileLens \cup LargeFileLens
    /\ os_page_size \in PageSizes
    /\ pc = "live"
    /\ \E base \in MapAddrs :
          /\ fb = OpenedView(backend, file_len, os_page_size, base)
          /\ os = OpenedOs(backend, file_len, base)
    /\ residency \in ResidencyStates(file_len, os_page_size)
    /\ advised = {}
    /\ leaked = NoSlice
    /\ last = NoOp
    /\ arg \in Windows(file_len)

NextResident == CallResidentLen \/ CallPrefetch

SpecResident == InitResident /\ [][NextResident]_vars

(***************************************************************************)
(* resident_len while the kernel reports busy: the next os.busy calls of   *)
(* mincore fail with EAGAIN.                                               *)
(***************************************************************************)
MaxBusy == 2

BusyFileLens == {3, 8}

InitBusy ==
    /\ threads = NoThreads
    /\ backend \in {"posix", "windows"}
    /\ overflow_checks \in BOOLEAN
    /\ file_len \in BusyFileLens
    /\ os_page_size \in PageSizes
    /\ pc = "live"
    /\ \E base \in MapAddrs, busy \in 0..MaxBusy :
          /\ fb = OpenedView(backend, file_len, os_page_size, base)
          /\ os = [OpenedOs(backend, file_len, base) EXCEPT !.busy = busy]
    /\ residency \in SUBSET PagesOf(file_len, os_page_size)
    /\ advised = {}
    /\ leaked = NoSlice
    /\ last = NoOp
    /\ arg \in Windows(file_len)

\* The kernel gets less busy.
KernelSettles ==
    /\ os.busy > 0
    /\ os' = [os EXCEPT !.busy = @ - 1]
    /\ UNCHANGED <<threads, backend, overflow_checks, file_len, os_page_size, pc, fb,
                   residency, advised, leaked, last, arg>>

NextBusy == CallResidentLen \/ KernelSettles

SpecBusy == InitBusy /\ [][NextBusy]_vars

(***************************************************************************)
(* The life of one view: open, use, leak, drop.                            *)
(***************************************************************************)
Init ==
    /\ threads = NoThreads
    /\ backend \in {"posix", "windows"}
    /\ overflow_checks \in BOOLEAN
    /\ file_len \in SmallFileLens \cup HugeFileLens
    /\ os_page_size \in PageSizes
    /\ pc = "start"
    /\ fb = NoView
    /\ os = NoOs
    /\ residency = {}
    /\ advised = {}
    /\ leaked = NoSlice
    /\ last = NoOp
    /\ arg \in Windows(file_len)

\* unix.rs unmap_file (munmap) / windows.rs unmap_file (UnmapViewOfFile).
unmap_file(o, buffer, length) ==
    [o EXCEPT !.munmaps = @ + 1,
              !.view_base = IF buffer = o.view_base THEN 0 ELSE @,
              !.view_len = IF buffer = o.view_base THEN 0 ELSE @,
              !.prims = @ \cup {IF backend = "windows" THEN "UnmapViewOfFile" ELSE "munmap"}]

\* The drop of an fs::File closes its handle or descriptor.
close_file(o) == [o EXCEPT !.file_closes = @ + 1, !.file_open = FALSE]

drop_platform_data_unchecked(o, platform_data) ==
    IF backend = "windows"
    THEN [o EXCEPT !.handle_closes = @ + 1, !.mapping_open = FALSE,
                   !.file_closes = @ + 1, !.file_open = FALSE]
    ELSE o

\* windows.rs PlatformData::drop, then the drop of its file field.  unix.rs
\* PlatformData holds nothing.
drop_platform_data(o, platform_data) ==
    IF backend = "windows"
    THEN [o EXCEPT !.handle_closes = IF platform_data.mapping_handle # 0 THEN @ + 1 ELSE @,
                   !.mapping_open = IF platform_data.mapping_handle # 0 THEN FALSE ELSE @,
                   !.file_closes = IF platform_data.file THEN @ + 1 ELSE @,
                   !.file_open = IF platform_data.file THEN FALSE ELSE @]
    ELSE o

\* How far open gets: opening the file, reading its metadata, the check of
\* the length against usize::max_value(), and mapping it (mmap;
\* CreateFileMappingW then MapViewOfFile) can each fail.
OpenOutcomes ==
    {"open_failed", "metadata_failed"}
    \cup (IF file_len > MaxUsize THEN {"too_large"}
          ELSE IF file_len = 0 THEN {"ok"}
          ELSE IF backend = "windows" THEN {"ok", "create_mapping_failed", "map_view_failed"}
          ELSE {"ok", "mmap_failed"})

\* What map_file holds when it fails at step outcome: on Windows, once the
\* length was checked, the file and the mapping handle are in platform_data.
FailedPlatformData(outcome) ==
    [file |-> TRUE, mapping_handle |-> IF outcome = "map_view_failed" THEN 1 ELSE 0]

\* The OS resources after an open that failed at step outcome: what was
\* acquired up to that step, then the drop of the file, or of the platform
\* data that holds it, when map_file returns the error.
FailedOs(outcome) ==
    LET acquired ==
            [NoOs EXCEPT
                !.file_open = outcome # "open_failed",
                !.mapping_open = outcome = "map_view_failed",
                !.prims = CASE outcome = "mmap_failed" -> {"mmap"}
                            [] outcome = "create_mapping_failed" -> {"CreateFileMappingW"}
                            [] outcome = "map_view_failed"
                                  -> {"CreateFileMappingW", "MapViewOfFile"}
                            [] OTHER -> {}]
    IN  IF outcome = "open_failed" THEN acquired
        ELSE IF outcome \in {"create_mapping_failed", "map_view_failed"}
        THEN drop_platform_data(acquired, FailedPlatformData(outcome))
        ELSE close_file(acquired)

\* unix.rs get_page_size: the value sysconf reports, asserted to be nonzero
\* and a power of two.
get_page_size_asserted(reported) ==
    [ok |-> reported # 0 /\ BitAnd(reported, Wrap(reported - 1)) = 0, value |-> reported]

\* windows.rs get_page_size: dwPageSize as GetSystemInfo reports it.
get_page_size(reported) ==
    IF backend = "windows" THEN [ok |-> TRUE, value |-> reported]
    ELSE get_page_size_asserted(reported)

\* The pages of the new mapping that are in the page cache already.
CachedPages ==
    IF IsPowerOfTwo(os_page_size) THEN SUBSET PagesOf(file_len, os_page_size) ELSE {{}}

\* lib.rs FileBuffer::open with unix.rs / windows.rs map_file and
\* get_page_size.  get_page_size is called once map_file has returned the
\* mapping: when its assertion fails no FileBuffer is built, so the mapping
\* stays and no view exists.
Open ==
    /\ pc = "start"
    /\ \E outcome \in OpenOutcomes :
          IF outcome = "ok"
          THEN \E base \in MapAddrs, cached \in CachedPages :
               \E page_size \in {get_page_size(os_page_size)} :
               /\ fb' = IF page_size.ok
                        THEN OpenedView(backend, file_len, page_size.value, base)
                        ELSE NoView
               /\ os' = OpenedOs(backend, file_len, base)
               /\ residency' = cached
               /\ pc' = IF page_size.ok THEN "live" ELSE "rejected"
               /\ last' = [op |-> "open", kind |-> IF page_size.ok THEN "value" ELSE "panic",
                           step |-> outcome]
          ELSE /\ fb' = NoView
               /\ os' = FailedOs(outcome)
               /\ residency' = {}
               /\ pc' = "failed"
               /\ last' = [op |-> "open", kind |-> "error", step |-> outcome]
    /\ UNCHANGED <<threads, backend, overflow_checks, file_len, os_page_size, advised, leaked, arg>>

\* The byte at addr as the process reads it: the file's byte while the view
\* that holds addr is mapped.
MemByte(addr) ==
    IF os.view_len > 0 /\ addr >= os.view_base /\ addr < os.view_base + os.view_len
    THEN FileByte(addr - os.view_base)
    ELSE -1

\* slice::from_raw_parts(buffer, length)[offset .. offset + length]
SliceBytes(buffer, offset, length) ==
    [i \in 1..length |-> MemByte(buffer + offset + i - 1)]

PagesTouched(offset, length) ==
    IF length = 0 THEN {}
    ELSE (offset \div os_page_size)..((offset + length - 1) \div os_page_size)

\* lib.rs Deref::deref: slice::from_raw_parts(self.buffer, self.length).
deref_slice_shifted(view) == [base |-> view.buffer + 1, len |-> view.length]

deref_slice(view) == [base |-> view.buffer, len |-> view.length]

\* from_raw_parts requires a non-null pointer also for a length of 0: called
\* with the null buffer of an empty file it either yields the empty slice or
\* stops the process on the precondition check.
RawPartsOutcomes(view) == IF view.buffer = 0 THEN {"slice", "abort"} ELSE {"slice"}

\* Reading &fbuffer[offset .. offset + length]: the range check of the slice
\* index panics; a touched page that is not resident is faulted in.
Read ==
    /\ pc = "live"
    /\ \E outcome \in RawPartsOutcomes(fb) :
          LET slice == deref_slice(fb)
          IN  IF outcome = "abort"
              THEN /\ pc' = "aborted"
                   /\ last' = [op |-> "read", offset |-> arg.offset, length |-> arg.length,
                               kind |-> "abort", value |-> <<>>]
                   /\ UNCHANGED <<threads, residency, advised>>
              ELSE IF arg.offset + arg.length > slice.len
              THEN /\ pc' = "panicked"
                   /\ last' = [op |-> "read", offset |-> arg.offset, length |-> arg.length,
                               kind |-> "panic", value |-> <<>>]
                   /\ UNCHANGED <<threads, residency, advised>>
              ELSE /\ pc' = pc
                   /\ last' = [op |-> "read", offset |-> arg.offset, length |-> arg.length,
                               kind |-> "value",
                               value |-> SliceBytes(slice.base, arg.offset, arg.length)]
                   /\ residency' = residency \cup PagesTouched(arg.offset, arg.length)
                   /\ advised' = advised \ PagesTouched(arg.offset, arg.length)
    /\ UNCHANGED <<threads, backend, overflow_checks, file_len, os_page_size, fb, os, leaked, arg>>

\* lib.rs FileBuffer::chunk_len_hint
chunk_len_hint == fb.page_size

CallChunkLenHint ==
    /\ pc = "live"
    /\ last' = [op |-> "chunk_len_hint", kind |-> "value", value |-> chunk_len_hint]
    /\ UNCHANGED <<threads, backend, overflow_checks, file_len, os_page_size, pc, fb, os, residency,
                   advised, leaked, arg>>

\* lib.rs Drop for FileBuffer, then the drop of the fields of the value.
drop_unconditional(o, view) ==
    drop_platform_data(unmap_file(o, view.buffer, view.length), view.platform_data)

drop(o, view) ==
    drop_platform_data(IF view.buffer # 0 THEN unmap_file(o, view.buffer, view.length) ELSE o,
                       view.platform_data)

\* The view goes out of scope, or a panic unwinds through its owner.
Drop ==
    /\ pc \in {"live", "panicked"}
    /\ os' = drop(os, fb)
    /\ pc' = "dropped"
    /\ UNCHANGED <<threads, backend, overflow_checks, file_len, os_page_size, fb, residency,
                   advised, leaked, last, arg>>

\* lib.rs FileBuffer::leak: the fields of self after "Prevent drop() from
\* freeing the buffer".
leak_keeps_buffer(view) == [view EXCEPT !.length = 0]

leak_keeps_length(view) == [view EXCEPT !.buffer = 0]

leak_disarm(view) == [view EXCEPT !.buffer = 0, !.length = 0]

\* leak takes self by value: self is dropped when leak returns.
Leak ==
    /\ pc = "live"
    /\ \E outcome \in RawPartsOutcomes(fb) :
          IF outcome = "abort"
          THEN /\ pc' = "aborted"
               /\ last' = [op |-> "leak", kind |-> "abort"]
               /\ UNCHANGED <<threads, fb, os, leaked>>
          ELSE /\ leaked' = [valid |-> TRUE, base |-> fb.buffer, len |-> fb.length]
               /\ fb' = leak_disarm(fb)
               /\ os' = drop(os, leak_disarm(fb))
               /\ pc' = "leaked"
               /\ last' = [op |-> "leak", kind |-> "value"]
    /\ UNCHANGED <<threads, backend, overflow_checks, file_len, os_page_size, residency, advised, arg>>

\* The program reads the leaked slice after the view is gone.
ReadLeaked ==
    /\ pc = "leaked"
    /\ arg.offset + arg.length <= leaked.len
    /\ last' = [op |-> "read_leaked", offset |-> arg.offset, length |-> arg.length,
                kind |-> "value", value |-> SliceBytes(leaked.base, arg.offset, arg.length)]
    /\ residency' = residency \cup PagesTouched(arg.offset, arg.length)
    /\ advised' = advised \ PagesTouched(arg.offset, arg.length)
    /\ UNCHANGED <<threads, backend, overflow_checks, file_len, os_page_size, pc, fb, os, leaked, arg>>

\* The kernel loads a page of the mapping, or evicts one, at any time.
OsLoad ==
    /\ os.view_len > 0
    /\ \E p \in PagesOf(os.view_len, os_page_size) \ residency :
          /\ residency' = residency \cup {p}
          /\ advised' = advised \ {p}
    /\ UNCHANGED <<threads, backend, overflow_checks, file_len, os_page_size, pc, fb, os, leaked,
                   last, arg>>

OsEvict ==
    /\ os.view_len > 0
    /\ \E p \in residency : residency' = residency \ {p}
    /\ UNCHANGED <<threads, backend, overflow_checks, file_len, os_page_size, pc, fb, os, advised,
                   leaked, last, arg>>

\* Opening a view, whatever page size the OS reports.
ReportedPageSizes == {0, 2, 3, 4, 6}

InitPageSize ==
    /\ threads = NoThreads
    /\ backend \in {"posix", "windows"}
    /\ overflow_checks \in BOOLEAN
    /\ file_len \in SmallFileLens
    /\ os_page_size \in ReportedPageSizes
    /\ pc = "start"
    /\ fb = NoView
    /\ os = NoOs
    /\ residency = {}
    /\ advised = {}
    /\ leaked = NoSlice
    /\ last = NoOp
    /\ arg \in Windows(file_len)

NextPageSize == Open \/ CallChunkLenHint \/ Leak \/ Drop

SpecPageSize == InitPageSize /\ [][NextPageSize]_vars

Next ==
    \/ Open
    \/ CallResidentLen
    \/ CallPrefetch
    \/ CallChunkLenHint
    \/ Read
    \/ Leak
    \/ ReadLeaked
    \/ Drop
    \/ OsLoad
    \/ OsEvict

Spec == Init /\ [][Next]_vars

(***************************************************************************)
(* Non-blocking slice acquisition and the caller that polls it             *)
(* (examples/sha256sum_streambuffer.rs).                                   *)
(***************************************************************************)
\* try_slice: the range when resident_len(offset, length) = length, else
\* prefetch(offset, length) and "none".
try_slice_result(offset, length, r, p) ==
    IF r.kind = "panic"
    THEN [kind |-> "panic", value |-> <<>>, resident |-> -1, prefetches |-> 0,
          calls |-> r.calls]
    ELSE IF r.value = length
    THEN [kind |-> "some", value |-> SliceBytes(deref_slice(fb).base, offset, length),
          resident |-> r.value, prefetches |-> 0, calls |-> r.calls]
    ELSE [kind |-> IF p.kind = "panic" THEN "panic" ELSE "none", value |-> <<>>,
          resident |-> r.value, prefetches |-> 1, calls |-> r.calls \o p.calls]

try_slice(offset, length) ==
    With(resident_len(offset, length), LAMBDA r :
        try_slice_result(offset, length, r, prefetch(offset, length)))

TryOutcome(offset, length, r) ==
    [op |-> "try_slice", offset |-> offset, length |-> length, kind |-> r.kind,
     value |-> r.value, resident |-> r.resident, prefetches |-> r.prefetches,
     calls |-> r.calls]

PollFileLens == {0, 3, 8}

\* A caller polls try_slice for one window until it gets the range.
TrySliceWindow ==
    /\ pc = "polling"
    /\ \E r \in {try_slice(arg.offset, arg.length)} :
           /\ last' = TryOutcome(arg.offset, arg.length, r)
           /\ os' = [os EXCEPT !.prims = @ \cup PrimsOf(r.calls)]
           /\ advised' = advised \cup (AdvisedBy(r.calls) \ residency)
           /\ pc' = CASE r.kind = "some" -> "received"
                      [] r.kind = "none" -> "polling"
                      [] OTHER -> "panicked"
    /\ UNCHANGED <<threads, backend, overflow_checks, file_len, os_page_size, fb, residency,
                   leaked, arg>>

\* sha256sum_streambuffer.rs hash: the chunk at state.offset.
ChunkAt(offset) == [offset |-> offset, length |-> Min(fb.length - offset, chunk_len_hint)]

\* One turn of the loop of hash: a chunk that is ready is consumed and the
\* offset advances; one that is not ends the call, which is made again later.
HashChunk ==
    /\ pc = "hashing"
    /\ \E chunk \in {ChunkAt(arg.offset)} : \E r \in {try_slice(chunk.offset, chunk.length)} :
           /\ last' = TryOutcome(chunk.offset, chunk.length, r)
           /\ os' = [os EXCEPT !.prims = @ \cup PrimsOf(r.calls)]
           /\ advised' = (advised \cup (AdvisedBy(r.calls) \ residency))
                            \ (IF r.kind = "some"
                               THEN PagesTouched(chunk.offset, chunk.length) ELSE {})
           /\ residency' = IF r.kind = "some"
                           THEN residency \cup PagesTouched(chunk.offset, chunk.length)
                           ELSE residency
           /\ arg' = IF r.kind = "some" THEN ChunkAt(chunk.offset + chunk.length) ELSE arg
           /\ pc' = CASE r.kind = "some" /\ chunk.offset + chunk.length = fb.length -> "done"
                      [] r.kind \in {"some", "none"} -> "hashing"
                      [] OTHER -> "panicked"
    /\ UNCHANGED <<threads, backend, overflow_checks, file_len, os_page_size, fb, leaked>>

\* The kernel loads a page it was advised to load.
OsLoadAdvised ==
    /\ os.view_len > 0
    /\ \E p \in advised :
          /\ residency' = residency \cup {p}
          /\ advised' = advised \ {p}
    /\ UNCHANGED <<threads, backend, overflow_checks, file_len, os_page_size, pc, fb, os,
                   leaked, last, arg>>

InitPoll ==
    /\ threads = NoThreads
    /\ backend \in {"posix", "windows"}
    /\ overflow_checks \in BOOLEAN
    /\ file_len \in PollFileLens
    /\ os_page_size \in PageSizes
    /\ \E base \in MapAddrs :
          /\ fb = OpenedView(backend, file_len, os_page_size, base)
          /\ os = OpenedOs(backend, file_len, base)
    /\ residency \in SUBSET PagesOf(file_len, os_page_size)
    /\ advised = {}
    /\ leaked = NoSlice
    /\ last = NoOp
    /\ \/ pc = "polling" /\ arg \in Windows(file_len)
       \/ pc = "hashing" /\ arg = ChunkAt(0)

NextPoll == TrySliceWindow \/ HashChunk \/ OsLoadAdvised \/ OsLoad

\* The caller keeps polling and the kernel loads what it was advised to load.
SpecPoll ==
    /\ InitPoll
    /\ [][NextPoll]_vars
    /\ WF_vars(TrySliceWindow)
    /\ WF_vars(HashChunk)
    /\ WF_vars(OsLoadAdvised)

(***************************************************************************)
(* Two threads that share one view through an Arc (lib.rs test             *)
(* fbuffer_can_be_shared_among_threads).                                   *)
(***************************************************************************)
Threads == {1, 2}

ThreadFileLens == {3}

\* The in-range windows of at least one byte.
ThreadWindows(len) ==
    {w \in [offset : 0..(len - 1), length : 1..len] : w.offset + w.length <= len}

InitThreads ==
    /\ backend \in {"posix", "windows"}
    /\ overflow_checks \in BOOLEAN
    /\ file_len \in ThreadFileLens
    /\ os_page_size \in PageSizes
    /\ pc = "shared"
    /\ \E base \in MapAddrs :
          /\ fb = OpenedView(backend, file_len, os_page_size, base)
          /\ os = OpenedOs(backend, file_len, base)
    /\ residency \in SUBSET PagesOf(file_len, os_page_size)
    /\ advised = {}
    /\ leaked = NoSlice
    /\ last = NoOp
    /\ arg = [offset |-> 0, length |-> 0]
    /\ threads \in [Threads -> [state : {"using"}, window : ThreadWindows(file_len),
                                last : {NoOp}]]

ThreadAfter(t, r, op) ==
    [threads EXCEPT ![t].state = IF r.kind = "panic" THEN "unwinding" ELSE @,
                    ![t].last = Outcome(op, threads[t].window.offset,
                                        threads[t].window.length, r)]

\* &buffer[offset .. offset + length] through the shared reference.
ThreadRead(t) ==
    /\ pc = "shared"
    /\ threads[t].state = "using"
    /\ LET w == threads[t].window
           slice == deref_slice(fb)
           r == IF w.offset + w.length > slice.len THEN Panic(<<>>)
                ELSE Value(SliceBytes(slice.base, w.offset, w.length), <<>>)
       IN  /\ threads' = ThreadAfter(t, r, "read")
           /\ residency' = residency \cup PagesTouched(w.offset, w.length)
           /\ advised' = advised \ PagesTouched(w.offset, w.length)
    /\ UNCHANGED <<backend, overflow_checks, file_len, os_page_size, pc, fb, os, leaked,
                   last, arg>>

ThreadResidentLen(t) ==
    /\ pc = "shared"
    /\ threads[t].state = "using"
    /\ \E r \in {resident_len(threads[t].window.offset, threads[t].window.length)} :
           /\ threads' = ThreadAfter(t, r, "resident_len")
           /\ os' = [os EXCEPT !.prims = @ \cup PrimsOf(r.calls)]
    /\ UNCHANGED <<backend, overflow_checks, file_len, os_page_size, pc, fb, residency,
                   advised, leaked, last, arg>>

ThreadPrefetch(t) ==
    /\ pc = "shared"
    /\ threads[t].state = "using"
    /\ \E r \in {prefetch(threads[t].window.offset, threads[t].window.length)} :
           /\ threads' = ThreadAfter(t, r, "prefetch")
           /\ os' = [os EXCEPT !.prims = @ \cup PrimsOf(r.calls)]
           /\ advised' = advised \cup (AdvisedBy(r.calls) \ residency)
    /\ UNCHANGED <<backend, overflow_checks, file_len, os_page_size, pc, fb, residency,
                   leaked, last, arg>>

\* The thread ends, or a panic unwinds it: its Arc is dropped, and the drop
\* of the last Arc drops the view.
ThreadExit(t) ==
    /\ pc = "shared"
    /\ threads[t].state \in {"using", "unwinding"}
    /\ threads' = [threads EXCEPT ![t].state = "done"]
    /\ IF \A u \in Threads \ {t} : threads[u].state = "done"
       THEN os' = drop(os, fb) /\ pc' = "dropped"
       ELSE UNCHANGED <<os, pc>>
    /\ UNCHANGED <<backend, overflow_checks, file_len, os_page_size, fb, residency,
                   advised, leaked, last, arg>>

NextThreads ==
    \/ \E t \in Threads : ThreadRead(t)
    \/ \E t \in Threads : ThreadResidentLen(t)
    \/ \E t \in Threads : ThreadPrefetch(t)
    \/ \E t \in Threads : ThreadExit(t)
    \/ OsLoad
    \/ OsEvict

SpecThreads == InitThreads /\ [][NextThreads]_vars

(***************************************************************************)
(* The claims.                                                             *)
(***************************************************************************)
InRange(offset, length) == offset + length <= fb.length

\* C1: over every open, use, leak and drop of a view of a non-empty file the
\* mapping is unmapped at most once: exactly once when the view was dropped
\* without a leak, never while it is in use and never once leak was called.
C1_UnmapAtMostOnce ==
    file_len > 0 =>
        /\ os.munmaps <= 1
        /\ pc \in {"live", "panicked"} => (os.munmaps = 0 /\ os.view_len = file_len)
        /\ pc = "dropped" => (os.munmaps = 1 /\ os.view_len = 0)
        /\ pc = "leaked" => (os.munmaps = 0 /\ os.view_len = file_len)

C1_Witness ==
    /\ file_len > 0
    /\ pc = "dropped"
    /\ last.op = "resident_len"
    /\ os.munmaps = 1

\* The leaked slice is the whole file, still mapped.
LeakedSliceValid ==
    /\ leaked.valid
    /\ leaked.len = file_len
    /\ \A i \in 0..(leaked.len - 1) : MemByte(leaked.base + i) = FileByte(i)

\* C6: after leak on a view of a non-empty file, on both backends, the drop of
\* the consumed value releases nothing (no unmap, no close of the mapping
\* handle or of the file handle) and the returned slice keeps its base,
\* length and content from then on.
C6_DropAfterLeakReleasesNothing ==
    (pc = "leaked" /\ file_len > 0) =>
        /\ os.munmaps = 0
        /\ os.handle_closes = 0
        /\ os.file_closes = OpenedOs(backend, file_len, leaked.base).file_closes
        /\ LeakedSliceValid

\* C6, where it holds: the view is not unmapped and the slice stays valid on
\* both backends; on Posix nothing at all is released.
C6_HoldsForTheView ==
    (pc = "leaked" /\ file_len > 0) =>
        /\ os.munmaps = 0
        /\ LeakedSliceValid
        /\ backend = "posix" => (os.handle_closes = 0 /\ os.file_closes = 1)

\* C7: for a zero-length file no mapping, residency, prefetch or unmap
\* primitive is ever called: resident_len(0, 0) is 0, prefetch(0, 0) does
\* nothing, byte access yields an empty range and the drop unmaps nothing.
C7_EmptyFileTouchesNoPrimitive ==
    file_len = 0 =>
        /\ os.prims = {}
        /\ os.munmaps = 0
        /\ (last.op = "resident_len" /\ last.offset = 0 /\ last.length = 0)
              => (last.kind = "value" /\ last.value = 0 /\ last.calls = <<>>)
        /\ (last.op = "prefetch" /\ last.offset = 0 /\ last.length = 0)
              => (last.kind = "value" /\ last.calls = <<>>)
        /\ (last.op = "read" /\ last.offset = 0 /\ last.length = 0)
              => (last.kind = "value" /\ last.value = <<>>)

\* C7, where it holds: everything but the byte access.
C7_HoldsApartFromByteAccess ==
    file_len = 0 =>
        /\ os.prims = {}
        /\ os.munmaps = 0
        /\ (last.op = "resident_len" /\ last.offset = 0 /\ last.length = 0)
              => (last.kind = "value" /\ last.value = 0 /\ last.calls = <<>>)
        /\ (last.op = "prefetch" /\ last.offset = 0 /\ last.length = 0)
              => (last.kind = "value" /\ last.calls = <<>>)

\* The bytes of the file in [offset, offset + length).
FileBytes(offset, length) == [i \in 1..length |-> FileByte(offset + i - 1)]

PrefetchCalls(calls) == {k \in DOMAIN calls : calls[k].fn = "prefetch"}

\* C4: try_slice(offset, length) on an in-range window returns the exact
\* range if and only if resident_len(offset, length) = length at the call;
\* in every other case it issues prefetch(offset, length) exactly once and
\* returns "not ready"; it issues no prefetch when it returns the range.
C4_TrySliceIffResident ==
    (last.op = "try_slice" /\ InRange(last.offset, last.length)) =>
        /\ last.kind \in {"some", "none"}
        /\ last.kind = "some" <=> last.resident = last.length
        /\ last.kind = "some" =>
              /\ last.value = FileBytes(last.offset, last.length)
              /\ last.prefetches = 0
              /\ PrefetchCalls(last.calls) = {}
        /\ last.kind = "none" =>
              /\ last.prefetches = 1
              /\ Cardinality(PrefetchCalls(last.calls)) = 1

\* C4, where it holds: the same statement for the calls in which
\* resident_len returns a value.
C4_HoldsWhenResidentLenReturns ==
    (last.op = "try_slice" /\ InRange(last.offset, last.length) /\ last.resident >= 0) =>
        /\ last.kind \in {"some", "none"}
        /\ last.kind = "some" <=> last.resident = last.length
        /\ last.kind = "some" =>
              /\ last.value = FileBytes(last.offset, last.length)
              /\ last.prefetches = 0
              /\ PrefetchCalls(last.calls) = {}
        /\ last.kind = "none" =>
              /\ last.prefetches = 1
              /\ Cardinality(PrefetchCalls(last.calls)) = 1

Received ==
    /\ pc = "received"
    /\ last.kind = "some"
    /\ last.value = FileBytes(arg.offset, arg.length)

\* C5: when the kernel loads the pages it was advised to load and keeps them,
\* a caller that keeps polling try_slice for an in-range window eventually
\* receives the exact bytes, and a caller that polls successive chunks of
\* chunk_len_hint bytes from offset 0 eventually consumes the whole file, its
\* offset never beyond the total length.
C5_PollingConverges ==
    /\ (pc = "polling" /\ InRange(arg.offset, arg.length)) ~> Received
    /\ (pc = "hashing") ~> (pc = "done" /\ arg.offset = fb.length)
    /\ [](pc \in {"hashing", "done"} => arg.offset <= fb.length)

\* C5, where it holds: the chunks from offset 0, and the windows whose
\* offset is page-aligned.
C5_HoldsForAlignedWindows ==
    /\ (pc = "polling" /\ InRange(arg.offset, arg.length)
           /\ arg.offset % os_page_size = 0) ~> Received
    /\ (pc = "hashing") ~> (pc = "done" /\ arg.offset = fb.length)
    /\ [](pc \in {"hashing", "done"} => arg.offset <= fb.length)

\* C9: under every interleaving of two threads that share one view and read
\* bytes, call resident_len and call prefetch on their windows, page_size,
\* buffer and length of the view never change, every byte read is the
\* file's byte, and the mapping is unmapped only once both threads are done.
C9_State ==
    pc \in {"shared", "dropped"} =>
        /\ \A t \in Threads :
              (threads[t].last.op = "read")
              => /\ threads[t].last.kind = "value"
                 /\ threads[t].last.value = FileBytes(threads[t].window.offset,
                                                      threads[t].window.length)
        /\ os.munmaps <= 1
        /\ os.munmaps = 1 <=> (\A t \in Threads : threads[t].state = "done")
        /\ (\E t \in Threads : threads[t].state # "done")
              => (os.view_len = file_len /\ os.view_base = fb.buffer)

C9_SharedViewIsImmutable == [](C9_State) /\ [][fb' = fb]_vars

C9_Witness ==
    /\ pc = "dropped"
    /\ os.munmaps = 1
    /\ \A t \in Threads : threads[t].state = "done" /\ threads[t].last.op = "read"
    /\ threads[1].window = [offset |-> 0, length |-> 2]
    /\ threads[2].window = [offset |-> 1, length |-> 2]

ViewExists == pc \in {"live", "panicked", "leaked", "dropped", "aborted"}

\* C8: in every state of a view, after open on either backend, during use and
\* after leak, buffer is null if and only if length is 0.
C8_NullBufferIffEmpty == ViewExists => (fb.buffer = 0 <=> fb.length = 0)

C8_Witness ==
    /\ pc = "leaked"
    /\ file_len > 0
    /\ leaked.len = file_len
    /\ fb.buffer = 0
    /\ fb.length = 0


\* The number of pages of the unbroken run of resident pages that starts
\* with page first.
RECURSIVE ResidentRun(_)
ResidentRun(first) == IF first \in residency THEN 1 + ResidentRun(first + 1) ELSE 0

\* The bytes from offset, at most length, that lie on that run.
ResidentPrefix(offset, length) ==
    LET run == ResidentRun(offset \div fb.page_size)
        bytes == run * fb.page_size - (offset % fb.page_size)
    IN  IF run = 0 THEN 0 ELSE Min(length, bytes)

\* C2: for every in-range offset and length and every residency state,
\* resident_len returns the number of bytes from offset, capped at length, on
\* the unbroken run of resident pages that starts with the page of offset (on
\* the backend whose OS reports residency).
C2_ResidentLenIsResidentPrefix ==
    (pc \in {"live", "panicked"} /\ last.op = "resident_len" /\ backend = "posix"
        /\ InRange(last.offset, last.length))
    => (last.kind = "value" /\ last.value = ResidentPrefix(last.offset, last.length))

\* C2, where it holds: the same statement for the calls whose offset is
\* page-aligned or whose first page is resident.
C2_HoldsWhenFirstPageCounts ==
    (pc \in {"live", "panicked"} /\ last.op = "resident_len" /\ backend = "posix"
        /\ InRange(last.offset, last.length)
        /\ (last.offset % fb.page_size = 0 \/ fb.buffer = 0
            \/ (last.offset \div fb.page_size) \in residency))
    => (last.kind = "value" /\ last.value = ResidentPrefix(last.offset, last.length))

\* C3: resident_len and prefetch called with offset + length greater than the
\* total length, the sum taken in the integers, panic: they return no value
\* and make no OS residency or prefetch call.
C3_OutOfRangeIsFatal ==
    (last.op \in {"resident_len", "prefetch"} /\ ~InRange(last.offset, last.length))
    => (last.kind = "panic" /\ PrimsOf(last.calls) = {})

\* C3, where it holds: the same statement for the pairs whose sum fits the word.
C3_HoldsWhenSumFits ==
    (last.op \in {"resident_len", "prefetch"} /\ ~InRange(last.offset, last.length)
        /\ (overflow_checks \/ last.offset + last.length <= MaxUsize))
    => (last.kind = "panic" /\ PrimsOf(last.calls) = {})

LeastMultipleAtLeast(size, p) == p * ((size + p - 1) \div p)

GreatestMultipleAtMost(size, p) == p * (size \div p)

\* C10: for a power of two p > 0 and a size with size + p - 1 in the word,
\* round_down_to(size, p) is the largest multiple of p that is <= size and
\* round_up_to(size, p) the smallest that is >= size; the two differ by 0 or
\* p, both are fixed points of both functions, and round_down_to(0, p) = 0.
C10_RoundToNearestMultiple ==
    (pc = "round" /\ last.op # "none" /\ IsPowerOfTwo(arg.power_of_two)
        /\ arg.size + arg.power_of_two - 1 <= MaxUsize)
    => LET p == arg.power_of_two
           up == round_up_to(arg.size, p)
           down == round_down_to(arg.size, p)
       IN  /\ last.kind = "value"
           /\ last.op = "round_up_to" => last.value = LeastMultipleAtLeast(arg.size, p)
           /\ last.op = "round_down_to" => last.value = GreatestMultipleAtMost(arg.size, p)
           /\ down <= arg.size /\ arg.size <= up
           /\ up - down \in {0, p}
           /\ \A v \in {last.value} : round_up_to(v, p) = v /\ round_down_to(v, p) = v
           /\ round_down_to(0, p) = 0

C10_Witness ==
    /\ pc = "round"
    /\ last.op = "round_up_to"
    /\ arg.power_of_two = 4
    /\ arg.size % 4 = 1
    /\ last.kind = "value"
    /\ last.value = arg.size + 3

\* C11: on the Windows backend resident_len(offset, length) on a view of a
\* non-empty file returns exactly length for every in-range offset and
\* length, whatever pages are resident and however many pages the window has.
C11_WindowsReportsAllResident ==
    (backend = "windows" /\ file_len > 0 /\ last.op = "resident_len"
        /\ InRange(last.offset, last.length))
    => (last.kind = "value" /\ last.value = last.length)

\* A window of more than BatchPages pages, its first page not resident.
C11_Witness ==
    /\ backend = "windows"
    /\ last.op = "resident_len"
    /\ last.offset = 1
    /\ last.length = file_len - 1
    /\ last.length > BatchPages * os_page_size
    /\ 0 \notin residency
    /\ last.value = last.length

\* The address of the page that holds offset, and the number of pages that
\* hold [offset, offset + length), computed by division.
FirstPageAddr(offset) == fb.buffer + offset - (offset % fb.page_size)

NumPages(offset, length) ==
    ((offset % fb.page_size) + length + fb.page_size - 1) \div fb.page_size

\* The pages of the view named by a call to the OS.
PagesNamed(c) == {PageAt(c.addr) + i : i \in 0..(c.len \div fb.page_size - 1)}

\* C12: during one resident_len call on a view of a non-empty file every
\* residency query covers at least 1 and at most 32 whole pages; the first
\* starts at the aligned offset and each next one where the one before
\* ended; every query but the last found all its pages resident, so none is
\* issued after a batch with a non-resident page; a query whose pages are
\* all resident is followed by the next batch until the window is covered
\* (entries the query did not write stop nothing); and there are at most
\* ceil(num_pages / 32) queries.
C12_BatchedQueries ==
    (last.op = "resident_len" /\ file_len > 0 /\ InRange(last.offset, last.length)) =>
        LET calls == last.calls
            n == NumPages(last.offset, last.length)
            start == FirstPageAddr(last.offset)
        IN  /\ \A k \in DOMAIN calls :
                  /\ calls[k].fn = "get_resident"
                  /\ calls[k].len % fb.page_size = 0
                  /\ calls[k].len \div fb.page_size \in 1..BatchPages
                  /\ calls[k].addr = IF k = 1 THEN start
                                     ELSE calls[k - 1].addr + calls[k - 1].len
                  /\ calls[k].addr + calls[k].len <= start + n * fb.page_size
                  /\ (k < Len(calls) /\ backend = "posix")
                        => PagesNamed(calls[k]) \subseteq residency
            /\ Len(calls) * BatchPages < n + BatchPages
            /\ (backend = "posix" /\ n > 0)
                  => /\ Len(calls) >= 1
                     /\ (PagesNamed(calls[Len(calls)]) \subseteq residency)
                           => (calls[Len(calls)].addr + calls[Len(calls)].len
                                  = start + n * fb.page_size)

\* Two queries on a window of more than two batches: a full batch, then a
\* batch that holds a non-resident page, after which no query is issued.
C12_Witness ==
    /\ backend = "posix"
    /\ last.op = "resident_len"
    /\ InRange(last.offset, last.length)
    /\ NumPages(last.offset, last.length) > 2 * BatchPages
    /\ Len(last.calls) = 2
    /\ last.calls[1].len = BatchPages * fb.page_size
    /\ ~(PagesNamed(last.calls[2]) \subseteq residency)

AllResident == PagesOf(file_len, os_page_size) \subseteq residency

\* C13: for every in-range offset and length on a view of a non-empty file,
\* prefetch hands the OS one range, and resident_len with every page
\* resident hands it consecutive ranges, that make up the same range: it
\* starts at round_down_to(offset, page_size), its start and length are
\* multiples of page_size, it contains [offset, offset + length) and it ends
\* no later than round_up_to(length of the file, page_size), so no call names
\* a page outside the mapping; both calls return.
C13_SameAlignedRange ==
    (file_len > 0
        /\ (last.op = "prefetch" \/ (last.op = "resident_len" /\ AllResident))
        /\ InRange(last.offset, last.length)) =>
        LET calls == last.calls
            start == fb.buffer + round_down_to(last.offset, fb.page_size)
            len == NumPages(last.offset, last.length) * fb.page_size
        IN  /\ last.kind = "value"
            /\ start % fb.page_size = 0
            /\ start <= fb.buffer + last.offset
            /\ fb.buffer + last.offset + last.length <= start + len
            /\ start + len <= fb.buffer + round_up_to(fb.length, fb.page_size)
            /\ last.op = "prefetch" =>
                  (Len(calls) = 1 /\ calls[1].addr = start /\ calls[1].len = len)
            /\ last.op = "resident_len" =>
                  /\ len = 0 <=> calls = <<>>
                  /\ \A k \in DOMAIN calls :
                        /\ calls[k].addr = IF k = 1 THEN start
                                           ELSE calls[k - 1].addr + calls[k - 1].len
                        /\ k = Len(calls) => calls[k].addr + calls[k].len = start + len
            /\ \A k \in DOMAIN calls :
                  /\ calls[k].addr % fb.page_size = 0
                  /\ calls[k].len % fb.page_size = 0
                  /\ PagesNamed(calls[k]) \subseteq PagesOf(file_len, os_page_size)

\* A prefetch of a window of more than one batch from an offset inside a page.
C13_Witness ==
    /\ last.op = "prefetch"
    /\ last.offset % fb.page_size # 0
    /\ InRange(last.offset, last.length)
    /\ NumPages(last.offset, last.length) > BatchPages
    /\ last.calls[1].addr < fb.buffer + last.offset

\* C14: when mincore reports the transient busy condition, get_resident
\* yields and repeats the same call, however often; the busy condition
\* never ends resident_len in a failure: every query that met a busy kernel
\* ends with the result 0 of a later call, and resident_len of an in-range
\* window at a page-aligned offset returns a value.
C14_BusyIsRetried ==
    (backend = "posix" /\ last.op = "resident_len" /\ InRange(last.offset, last.length)) =>
        /\ \A k \in DOMAIN last.calls :
              last.calls[k].busy > 0 => last.calls[k].ret = 0
        /\ (os.busy > 0 /\ last.offset % fb.page_size = 0) => last.kind = "value"

\* C14, where it holds: a query the kernel answers at once succeeds.
C14_HoldsWhenNotBusy ==
    (backend = "posix" /\ last.op = "resident_len" /\ InRange(last.offset, last.length)) =>
        \A k \in DOMAIN last.calls :
            /\ last.calls[k].busy = 0 => last.calls[k].ret = 0
            /\ last.calls[k].busy <= 1

\* C15: when open fails after a sub-resource was acquired (metadata, the
\* length check, mmap, CreateFileMappingW or MapViewOfFile fails), the file
\* that was opened is closed exactly once and is no longer open, the mapping
\* handle is closed exactly once if it was created and never otherwise,
\* nothing is unmapped and no view exists.
C15_FailedOpenReleasesOnce ==
    pc = "failed" =>
        /\ last.op = "open" /\ last.kind = "error"
        /\ ~os.file_open
        /\ ~os.mapping_open
        /\ os.file_closes = (IF last.step = "open_failed" THEN 0 ELSE 1)
        /\ os.handle_closes = (IF last.step = "map_view_failed" THEN 1 ELSE 0)
        /\ os.munmaps = 0
        /\ os.view_len = 0
        /\ fb = NoView

\* CreateFileMappingW failed on Windows: the file is closed, no handle is.
C15_Witness ==
    /\ pc = "failed"
    /\ backend = "windows"
    /\ last.step = "create_mapping_failed"
    /\ os.file_closes = 1
    /\ os.handle_closes = 0

\* C16: on the Windows backend, while the view of a non-empty file is mapped
\* the file handle and the mapping handle are open; the mapping handle is
\* closed only once the view is unmapped and the file only once the mapping
\* handle is closed, each at most once.
C16_HandlesOutliveTheView ==
    (backend = "windows" /\ file_len \in 1..MaxUsize) =>
        /\ os.view_len > 0 => (os.file_open /\ os.mapping_open)
        /\ os.handle_closes > 0 => os.view_len = 0
        /\ os.file_closes > 0 => ~os.mapping_open
        /\ os.munmaps <= 1 /\ os.handle_closes <= 1 /\ os.file_closes <= 1

\* C16, where it holds: as long as leak was not called.
C16_HoldsWithoutLeak ==
    (backend = "windows" /\ file_len \in 1..MaxUsize /\ pc # "leaked") =>
        /\ os.view_len > 0 => (os.file_open /\ os.mapping_open)
        /\ (os.handle_closes > 0 /\ pc # "failed") => (os.view_len = 0 /\ os.munmaps = 1)
        /\ os.file_closes > 0 => ~os.mapping_open
        /\ os.munmaps <= 1 /\ os.handle_closes <= 1 /\ os.file_closes <= 1

\* C17: on both backends, whatever page size the OS reports, a view that
\* exists after open has the reported page size and it is a nonzero power of
\* two (any other value is rejected in open); page_size stays that value for
\* the life of the view and chunk_len_hint returns it.
C17_PageSizeValidated ==
    /\ ViewExists =>
          /\ fb.page_size = os_page_size
          /\ fb.page_size # 0
          /\ fb.page_size \in PowersOfTwo
          /\ last.op = "chunk_len_hint" => last.value = fb.page_size
    /\ (pc \notin {"start", "failed"} /\ os_page_size \notin PowersOfTwo) => pc = "rejected"

\* C17, where it holds: on the Posix backend; on Windows the page size is
\* constant and chunk_len_hint returns it.
C17_HoldsOnPosix ==
    /\ (ViewExists /\ backend = "posix") =>
          /\ fb.page_size # 0
          /\ fb.page_size \in PowersOfTwo
    /\ ViewExists =>
          /\ fb.page_size = os_page_size
          /\ last.op = "chunk_len_hint" => last.value = fb.page_size
    /\ (pc \notin {"start", "failed"} /\ os_page_size \notin PowersOfTwo
          /\ backend = "posix") => pc = "rejected"

====
